---- MODULE Spec2Model ----
(***************************************************************************)
(* Model of amazing_automata.py: ProjectDetector (detection of a project   *)
(* profile from a project tree) and PipelineGenerator (synthesis of a CI   *)
(* pipeline document from a profile and a configuration).                  *)
(***************************************************************************)
EXTENDS Integers, Sequences, FiniteSets, TLC

VARIABLES
    tree,       \* the project tree detect() reads: a set of <<entry, content>> facts
    pc,         \* "start" | "returned" | "raised" (detect) | "generated" | "failed" (generate)
    profile,    \* the project_info dict detect() returned / generate() is given
    error,      \* the exception that left the operation, "" when none
    config,     \* the configuration dict given to generate()
    document,   \* the dict generate() returned
    fs,         \* the output filesystem: directories made and files written
    ran,        \* the templates that have been run
    calls,      \* how many times detect() has been called on the tree
    recommendations  \* the list get_refactoring_recommendations() returned

vars == <<tree, pc, profile, error, config, document, fs, ran, calls, recommendations>>

\* The most pieces of evidence (tree entries, package.json keys) a tree holds.
MaxEvidence == 2

\* The most calls of detect() made on one tree.
MaxCalls == 2

\* Python's None.
PyNone == "<None>"
\* A dict key that is not present.
Absent == "<absent>"

-----------------------------------------------------------------------------
(* The project tree.  A fact <<name, content>> says that entry `name`      *)
(* exists, with what the code can learn of its content.                    *)

PlainEntries ==
    { "Makefile", "CMakeLists.txt", "configure", "main.c", "util.h",
      "lerna.json", "nx.json", "rush.json", "services", "microservices",
      "Dockerfile", "docker-compose.yml", "docker-compose.yaml",
      "webpack.config.js", "vite.config.js", "k8s", "kubernetes",
      "manage.py", "app.py", "main.py", "src/main/java/Application.java",
      "Startup.cs", "artisan",
      "src/a.test.js", "src/a.spec.js", "tests", "__tests__",
      "pkg/a_test.py", "pkg/test_a.py", "src/ATest.java", "test",
      "pkg/a_test.go", "src/ATest.cs", "Tests" }

\* Text manifests: unreadable, empty, or text holding some marker substring.
FileAtoms ==
    (PlainEntries \X {"present"})
    \cup ({"requirements.txt"} \X {"unreadable", "empty", "text"})
    \cup ({"pom.xml"} \X {"unreadable", "empty", "text"})
    \cup ({"go.mod"} \X {"unreadable", "empty", "text", "gin-gonic/gin",
                         "labstack/echo", "gofiber/fiber"})
    \cup ({"App.csproj"} \X {"unreadable", "empty", "text"})
    \cup ({"pyproject.toml"} \X {"unreadable", "text", "django", "flask", "fastapi"})
    \cup ({"build.gradle"} \X {"unreadable", "text", "spring-boot"})
    \cup ({"composer.json"} \X {"unparsable", "emptyobj", "object", "symfony/symfony",
                                "list", "require-null"})

\* The dependency names the classifier looks for, and one it does not.
DepNames ==
    { "typescript", "ts-node", "react-native", "react", "react-dom", "vue",
      "@vue/cli-service", "@angular/core", "@angular/cli", "express", "koa",
      "fastify", "nestjs", "lodash" }

\* package.json: what the file parses to, or the keys of a JSON object.
PkgAtoms ==
    ({"package.json"} \X {"unparsable", "null", "emptylist", "emptyobj", "list",
                          "string", "object"})
    \cup ({"package.json/dependencies"} \X (DepNames \cup {"#null", "#list"}))
    \cup ({"package.json/devDependencies"} \X (DepNames \cup {"#null", "#list"}))
    \cup ({"package.json/name"} \X {"express"})
    \cup ({"package.json/keywords"} \X {"express", "cli", "#null"})

Atoms == FileAtoms \cup PkgAtoms

MultiValued ==
    {"package.json/dependencies", "package.json/devDependencies", "package.json/keywords"}

PkgFields == MultiValued \cup {"package.json/name"}

\* A tree is consistent: one content per entry, a JSON value of one kind.
Consistent(t) ==
    /\ \A a, b \in t : (a[1] = b[1] /\ a[1] \notin MultiValued) => a = b
    /\ \A a, b \in t : (a[1] = b[1] /\ a[2] \in {"#null", "#list"}) => a = b
    /\ \A a, b \in t : (a[1] \in PkgFields /\ b[1] = "package.json") => b[2] = "object"

RECURSIVE KSubsets(_, _)
KSubsets(S, k) ==
    IF k = 0 THEN {{}}
    ELSE LET prev == KSubsets(S, k - 1)
         IN  prev \cup {T \cup {x} : T \in {U \in prev : Cardinality(U) = k - 1}, x \in S}

Trees == {t \in KSubsets(Atoms, MaxEvidence) : Consistent(t)}

-----------------------------------------------------------------------------
(* Evidence reader.                                                        *)

Content(t, name) ==
    IF \E a \in t : a[1] = name THEN (CHOOSE a \in t : a[1] = name)[2] ELSE "missing"

Values(t, field) == {a[2] : a \in {b \in t : b[1] = field}}

\* Path(project_path).glob(pattern): the entries of the universe the pattern matches.
Glob(pattern) ==
    CASE pattern = "*.c" -> {"main.c"}
      [] pattern = "*.h" -> {"util.h"}
      [] pattern = "*.csproj" -> {"App.csproj"}
      [] pattern = "**/*.test.js" -> {"src/a.test.js"}
      [] pattern = "**/*.spec.js" -> {"src/a.spec.js"}
      [] pattern = "**/tests/**" -> {"tests"}
      [] pattern = "**/__tests__/**" -> {"__tests__"}
      [] pattern = "**/*_test.py" -> {"pkg/a_test.py"}
      [] pattern = "**/test_*.py" -> {"pkg/test_a.py"}
      [] pattern = "**/*Test.java" -> {"src/ATest.java"}
      [] pattern = "**/test/**" -> {"test"}
      [] pattern = "**/*_test.go" -> {"pkg/a_test.go"}
      [] pattern = "**/*Test.cs" -> {"src/ATest.cs"}
      [] pattern = "**/Tests/**" -> {"Tests"}
      [] pattern = "src/main/java/**/Application.java" -> {"src/main/java/Application.java"}
      [] OTHER -> {pattern}

_file_exists(t, pattern) == \E a \in t : a[1] \in Glob(pattern)

\* A JSON object member: absent, null, a list, or a map with the given keys.
Member(t, field) ==
    LET vs == Values(t, field)
    IN  IF vs = {} THEN [tag |-> "absent", keys |-> {}]
        ELSE IF "#null" \in vs THEN [tag |-> "null", keys |-> {}]
        ELSE IF "#list" \in vs THEN [tag |-> "list", keys |-> {}]
        ELSE [tag |-> "map", keys |-> vs]

NoneValue ==
    [kind |-> PyNone, dependencies |-> [tag |-> "absent", keys |-> {}],
     devDependencies |-> [tag |-> "absent", keys |-> {}], name |-> Absent,
     keywords |-> [tag |-> "absent", keys |-> {}]]

\* json.load of package.json; None when the file is missing or does not parse.
_read_package_json(t) ==
    LET whole == Content(t, "package.json")
        kind  == IF whole # "missing" THEN whole
                 ELSE IF \E a \in t : a[1] \in PkgFields THEN "object" ELSE "missing"
    IN  IF kind \in {"missing", "unparsable", "null"} THEN NoneValue
        ELSE IF kind # "object" THEN [NoneValue EXCEPT !.kind = kind]
        ELSE [kind |-> "object",
              dependencies |-> Member(t, "package.json/dependencies"),
              devDependencies |-> Member(t, "package.json/devDependencies"),
              name |-> IF Values(t, "package.json/name") = {} THEN Absent ELSE "express",
              keywords |-> Member(t, "package.json/keywords")]

\* The stripped, non-comment lines; None when the file cannot be read.
_read_requirements_txt(t) ==
    LET c == Content(t, "requirements.txt")
    IN  IF c \in {"missing", "unreadable"} THEN PyNone ELSE c

_read_pom_xml(t) ==
    LET c == Content(t, "pom.xml")
    IN  IF c \in {"missing", "unreadable"} THEN PyNone ELSE c

_read_go_mod(t) ==
    LET c == Content(t, "go.mod")
    IN  IF c \in {"missing", "unreadable"} THEN PyNone ELSE c

_read_composer_json(t) ==
    LET c == Content(t, "composer.json")
    IN  IF c \in {"missing", "unparsable"} THEN PyNone ELSE c

_read_csproj(t) ==
    LET c == Content(t, "App.csproj")
    IN  IF c \in {"missing", "unreadable"} THEN PyNone ELSE c

\* Python truthiness of what a reader returned.
Truthy(v) == v \notin {PyNone, "empty", "emptyobj", "emptylist"}

-----------------------------------------------------------------------------
(* Language/framework classifier.                                          *)

Match(l, f, ty) ==
    [status |-> "match", error |-> "", language |-> l, framework |-> f, type |-> ty]

NoMatch ==
    [status |-> "none", error |-> "", language |-> Absent, framework |-> Absent,
     type |-> Absent]

Raise(e) ==
    [status |-> "raise", error |-> e, language |-> Absent, framework |-> Absent,
     type |-> Absent]

\* PackageRules with the react rule tried before the TypeScript rule.
PackageRules_ReactFirst(pj) ==
    IF pj.kind # "object" THEN Raise("AttributeError")
    ELSE IF pj.dependencies.tag \in {"null", "list"}
            \/ pj.devDependencies.tag \in {"null", "list"} THEN Raise("TypeError")
    ELSE LET all_deps == pj.dependencies.keys \cup pj.devDependencies.keys
         IN  IF "react" \in all_deps \/ "react-dom" \in all_deps
                 THEN Match("javascript", "react", "frontend")
             ELSE IF "typescript" \in all_deps \/ "ts-node" \in all_deps
                 THEN Match("typescript", "typescript", "backend")
             ELSE IF "react-native" \in all_deps
                 THEN Match("javascript", "react-native", "mobile")
             ELSE IF "vue" \in all_deps \/ "@vue/cli-service" \in all_deps
                 THEN Match("javascript", "vue", "frontend")
             ELSE IF "@angular/core" \in all_deps \/ "@angular/cli" \in all_deps
                 THEN Match("typescript", "angular", "frontend")
             ELSE IF \E dep \in {"express", "koa", "fastify", "nestjs"} : dep \in all_deps
                 THEN Match("javascript", "nodejs", "backend")
             ELSE IF pj.name = "express"
                 THEN Match("javascript", "express", "backend")
             ELSE IF pj.keywords.tag = "null" THEN Raise("TypeError")
             ELSE IF "express" \in pj.keywords.keys
                 THEN Match("javascript", "express", "backend")
             ELSE NoMatch

\* The rules applied to a truthy package.json value, first match first.
PackageRules(pj) ==
    IF pj.kind # "object" THEN Raise("AttributeError")
    ELSE IF pj.dependencies.tag \in {"null", "list"}
            \/ pj.devDependencies.tag \in {"null", "list"} THEN Raise("TypeError")
    ELSE LET all_deps == pj.dependencies.keys \cup pj.devDependencies.keys
         IN  IF "typescript" \in all_deps \/ "ts-node" \in all_deps
                 THEN Match("typescript", "typescript", "backend")
             ELSE IF "react-native" \in all_deps
                 THEN Match("javascript", "react-native", "mobile")
             ELSE IF "react" \in all_deps \/ "react-dom" \in all_deps
                 THEN Match("javascript", "react", "frontend")
             ELSE IF "vue" \in all_deps \/ "@vue/cli-service" \in all_deps
                 THEN Match("javascript", "vue", "frontend")
             ELSE IF "@angular/core" \in all_deps \/ "@angular/cli" \in all_deps
                 THEN Match("typescript", "angular", "frontend")
             ELSE IF \E dep \in {"express", "koa", "fastify", "nestjs"} : dep \in all_deps
                 THEN Match("javascript", "nodejs", "backend")
             ELSE IF pj.name = "express"
                 THEN Match("javascript", "express", "backend")
             ELSE IF pj.keywords.tag = "null" THEN Raise("TypeError")
             ELSE IF "express" \in pj.keywords.keys
                 THEN Match("javascript", "express", "backend")
             ELSE NoMatch

_detect_python_framework(t) ==
    IF _file_exists(t, "manage.py") THEN "django"
    ELSE IF _file_exists(t, "app.py") THEN "flask"
    ELSE IF _file_exists(t, "main.py") THEN "fastapi"
    ELSE LET pyproject_content == Content(t, "pyproject.toml")
         IN  IF pyproject_content \in {"django", "flask", "fastapi"}
             THEN pyproject_content ELSE "unknown"

_detect_java_framework(t) ==
    IF _file_exists(t, "src/main/java/**/Application.java") THEN "spring-boot"
    ELSE IF Content(t, "build.gradle") = "spring-boot" THEN "spring-boot"
    ELSE "unknown"

_detect_go_framework(t) ==
    LET go_mod == _read_go_mod(t)
    IN  IF Truthy(go_mod)
        THEN IF go_mod = "gin-gonic/gin" THEN "gin"
             ELSE IF go_mod = "labstack/echo" THEN "echo"
             ELSE IF go_mod = "gofiber/fiber" THEN "fiber"
             ELSE "unknown"
        ELSE "unknown"

_detect_csharp_framework(t) ==
    IF _file_exists(t, "Startup.cs") THEN "aspnet-core" ELSE "unknown"

\* The PHP probe calls .get on whatever composer.json parsed to.
_detect_php_framework(t) ==
    IF _file_exists(t, "artisan") THEN Match("php", "laravel", "backend")
    ELSE IF _file_exists(t, "composer.json")
    THEN LET composer_json == _read_composer_json(t)
         IN  IF ~Truthy(composer_json) THEN Match("php", "unknown", "backend")
             ELSE IF composer_json = "list" THEN Raise("AttributeError")
             ELSE IF composer_json = "require-null" THEN Raise("TypeError")
             ELSE IF composer_json = "symfony/symfony"
                 THEN Match("php", "symfony", "backend")
             ELSE Match("php", "unknown", "backend")
    ELSE Match("php", "unknown", "backend")

PythonMarkers(t, files) ==
    \/ Truthy(files.requirements_txt)
    \/ _file_exists(t, "requirements.txt")
    \/ _file_exists(t, "pyproject.toml")

JavaMarkers(t, files) ==
    \/ Truthy(files.pom_xml)
    \/ _file_exists(t, "pom.xml")
    \/ _file_exists(t, "build.gradle")

GoMarkers(t, files) == Truthy(files.go_mod) \/ _file_exists(t, "go.mod")

CMarkers(t) ==
    \/ _file_exists(t, "Makefile")
    \/ _file_exists(t, "CMakeLists.txt")
    \/ _file_exists(t, "configure")
    \/ _file_exists(t, "*.c")
    \/ _file_exists(t, "*.h")

CSharpMarkers(t, files) == Truthy(files.csproj) \/ _file_exists(t, "*.csproj")

PhpMarkers(t, files) == Truthy(files.composer_json) \/ _file_exists(t, "composer.json")

\* LanguageRules with the PHP check made before the C check.
LanguageRules_PhpBeforeC(t, files) ==
    IF PythonMarkers(t, files)
        THEN Match("python", _detect_python_framework(t), "backend")
    ELSE IF JavaMarkers(t, files)
        THEN Match("java", _detect_java_framework(t), "backend")
    ELSE IF GoMarkers(t, files)
        THEN Match("go", _detect_go_framework(t), "backend")
    ELSE IF PhpMarkers(t, files)
        THEN _detect_php_framework(t)
    ELSE IF CMarkers(t)
        THEN Match("c", "unknown", "backend")
    ELSE IF CSharpMarkers(t, files)
        THEN Match("csharp", _detect_csharp_framework(t), "backend")
    ELSE Match("unknown", PyNone, "unknown")

\* The checks made when package.json is falsy or none of its rules matched.
LanguageRules(t, files) ==
    IF PythonMarkers(t, files)
        THEN Match("python", _detect_python_framework(t), "backend")
    ELSE IF JavaMarkers(t, files)
        THEN Match("java", _detect_java_framework(t), "backend")
    ELSE IF GoMarkers(t, files)
        THEN Match("go", _detect_go_framework(t), "backend")
    ELSE IF CMarkers(t)
        THEN Match("c", "unknown", "backend")
    ELSE IF CSharpMarkers(t, files)
        THEN Match("csharp", _detect_csharp_framework(t), "backend")
    ELSE IF PhpMarkers(t, files)
        THEN _detect_php_framework(t)
    ELSE Match("unknown", PyNone, "unknown")

_detect_language_and_framework(t, files) ==
    LET p == IF Truthy(files.package_json.kind)
             THEN PackageRules(files.package_json) ELSE NoMatch
    IN  IF p.status # "none" THEN p ELSE LanguageRules(t, files)

-----------------------------------------------------------------------------
(* Structure and complexity analyzer.                                      *)

_analyze_structure(t) ==
    [monorepo |-> \/ _file_exists(t, "lerna.json")
                  \/ _file_exists(t, "nx.json")
                  \/ _file_exists(t, "rush.json"),
     microservices |-> \/ _file_exists(t, "services")
                       \/ _file_exists(t, "microservices"),
     layered |-> FALSE,
     modular |-> FALSE,
     dockerized |-> \/ _file_exists(t, "Dockerfile")
                    \/ _file_exists(t, "docker-compose.yml")
                    \/ _file_exists(t, "docker-compose.yaml")]

Threshold(score) ==
    IF score >= 5 THEN "high" ELSE IF score >= 3 THEN "medium" ELSE "low"

_assess_complexity(project_info) ==
    LET n == Len(project_info.dependencies)
        score == (IF n > 50 THEN 2 ELSE IF n > 20 THEN 1 ELSE 0)
                 + (IF project_info.structure.monorepo THEN 2 ELSE 0)
                 + (IF project_info.structure.microservices THEN 2 ELSE 0)
                 + (IF ~project_info.testing THEN 1 ELSE 0)
    IN  Threshold(score)

test_patterns(language) ==
    CASE language = "python" -> <<"**/*_test.py", "**/test_*.py", "**/tests/**">>
      [] language = "java" -> <<"**/*Test.java", "**/test/**">>
      [] language = "go" -> <<"**/*_test.go", "**/test/**">>
      [] language = "csharp" -> <<"**/*Test.cs", "**/Tests/**">>
      [] OTHER -> <<"**/*.test.js", "**/*.spec.js", "**/tests/**", "**/__tests__/**">>

_detect_testing(t, language) ==
    LET patterns == test_patterns(language)
    IN  \E i \in 1..Len(patterns) : _file_exists(t, patterns[i])

_detect_build_tools(t) ==
    (IF _file_exists(t, "webpack.config.js") THEN <<"webpack">> ELSE << >>)
    \o (IF _file_exists(t, "vite.config.js") THEN <<"vite">> ELSE << >>)
    \o (IF _file_exists(t, "Dockerfile") THEN <<"docker">> ELSE << >>)

_detect_deployment(t) ==
    (IF _file_exists(t, "Dockerfile") THEN <<"docker">> ELSE << >>)
    \o (IF _file_exists(t, "k8s") \/ _file_exists(t, "kubernetes")
        THEN <<"kubernetes">> ELSE << >>)

-----------------------------------------------------------------------------
(* ProjectDetector.detect                                                  *)

ProjectPath == "./project"

ReadAll(t) ==
    [package_json |-> _read_package_json(t),
     requirements_txt |-> _read_requirements_txt(t),
     pom_xml |-> _read_pom_xml(t),
     go_mod |-> _read_go_mod(t),
     composer_json |-> _read_composer_json(t),
     csproj |-> _read_csproj(t)]

detect_CarriesProfile(t) ==
    LET detection == _detect_language_and_framework(t, ReadAll(t))
        kept == IF pc = "returned" THEN profile.build_tools ELSE << >>
        info0 == [path |-> ProjectPath, language |-> "unknown", framework |-> "unknown",
                  type |-> Absent, structure |-> "unknown", complexity |-> "low",
                  dependencies |-> << >>, testing |-> FALSE, build_tools |-> kept,
                  deployment |-> << >>]
        info1 == [info0 EXCEPT !.language = detection.language,
                               !.framework = detection.framework,
                               !.type = detection.type]
        info2 == [info1 EXCEPT !.structure = _analyze_structure(t)]
        info3 == [info2 EXCEPT !.complexity = _assess_complexity(info2)]
        info4 == [info3 EXCEPT !.testing = _detect_testing(t, info3.language)]
        info5 == [info4 EXCEPT !.build_tools = info4.build_tools \o _detect_build_tools(t)]
        info6 == [info5 EXCEPT !.deployment = _detect_deployment(t)]
    IN  IF detection.status = "raise"
        THEN [status |-> "raised", error |-> detection.error, info |-> PyNone]
        ELSE [status |-> "returned", error |-> "", info |-> info6]

detect_TestingFirst(t) ==
    LET detection == _detect_language_and_framework(t, ReadAll(t))
        info0 == [path |-> ProjectPath, language |-> "unknown", framework |-> "unknown",
                  type |-> Absent, structure |-> "unknown", complexity |-> "low",
                  dependencies |-> << >>, testing |-> FALSE, build_tools |-> << >>,
                  deployment |-> << >>]
        info1 == [info0 EXCEPT !.language = detection.language,
                               !.framework = detection.framework,
                               !.type = detection.type]
        info2 == [info1 EXCEPT !.structure = _analyze_structure(t)]
        info3 == [info2 EXCEPT !.testing = _detect_testing(t, info2.language)]
        info4 == [info3 EXCEPT !.complexity = _assess_complexity(info3)]
        info5 == [info4 EXCEPT !.build_tools = _detect_build_tools(t)]
        info6 == [info5 EXCEPT !.deployment = _detect_deployment(t)]
    IN  IF detection.status = "raise"
        THEN [status |-> "raised", error |-> detection.error, info |-> PyNone]
        ELSE [status |-> "returned", error |-> "", info |-> info6]

\* The dict detect() starts from, and the one it returns: each field is
\* assigned in the order of the code, from the dict as it is at that point.
detect(t) ==
    LET detection == _detect_language_and_framework(t, ReadAll(t))
        info0 == [path |-> ProjectPath, language |-> "unknown", framework |-> "unknown",
                  type |-> Absent, structure |-> "unknown", complexity |-> "low",
                  dependencies |-> << >>, testing |-> FALSE, build_tools |-> << >>,
                  deployment |-> << >>]
        info1 == [info0 EXCEPT !.language = detection.language,
                               !.framework = detection.framework,
                               !.type = detection.type]
        info2 == [info1 EXCEPT !.structure = _analyze_structure(t)]
        info3 == [info2 EXCEPT !.complexity = _assess_complexity(info2)]
        info4 == [info3 EXCEPT !.testing = _detect_testing(t, info3.language)]
        info5 == [info4 EXCEPT !.build_tools = _detect_build_tools(t)]
        info6 == [info5 EXCEPT !.deployment = _detect_deployment(t)]
    IN  IF detection.status = "raise"
        THEN [status |-> "raised", error |-> detection.error, info |-> PyNone]
        ELSE [status |-> "returned", error |-> "", info |-> info6]

NoConfig == PyNone
NoDocument == PyNone
NoProfile == PyNone
EmptyFs == [dirs |-> {}, written |-> << >>]

InitDetect ==
    /\ tree \in Trees
    /\ pc = "start"
    /\ profile = NoProfile
    /\ error = ""
    /\ config = NoConfig
    /\ document = NoDocument
    /\ fs = EmptyFs
    /\ ran = << >>
    /\ calls = 0
    /\ recommendations = << >>

\* A call of detect() on the tree: the first one, or one more on the same tree.
Detect ==
    /\ pc \in {"start", "returned", "raised"}
    /\ calls < MaxCalls
    /\ LET r == detect(tree)
       IN  /\ pc' = r.status
           /\ profile' = r.info
           /\ error' = r.error
    /\ calls' = calls + 1
    /\ UNCHANGED <<tree, config, document, fs, ran, recommendations>>

NextDetect == Detect

SpecDetect == InitDetect /\ [][NextDetect]_vars

-----------------------------------------------------------------------------
(* Step catalog.  A step is a dict with the keys name, uses, run, with;    *)
(* a key the code leaves out holds Absent.                                 *)

Step(name, uses, run, with) ==
    [name |-> name, uses |-> uses, run |-> run, with |-> with]

RunStep(name, run) == Step(name, Absent, run, Absent)

_get_language_setup_steps(project_info) ==
    LET language == project_info.language
    IN  IF language = "javascript"
            THEN <<Step("Setup Node.js", "actions/setup-node@v4", Absent,
                        <<"node-version", "18", "cache", "npm">>)>>
        ELSE IF language = "python"
            THEN <<Step("Setup Python", "actions/setup-python@v4", Absent,
                        <<"python-version", "3.9">>)>>
        ELSE IF language = "typescript"
            THEN <<Step("Setup Node.js", "actions/setup-node@v4", Absent,
                        <<"node-version", "18", "cache", "npm">>)>>
        ELSE IF language = "c"
            THEN <<RunStep("Setup C environment",
                   "sudo apt-get update && sudo apt-get install -y build-essential gcc make")>>
        ELSE IF language = "java"
            THEN <<Step("Setup Java", "actions/setup-java@v3", Absent,
                        <<"java-version", "17", "distribution", "temurin">>)>>
        ELSE IF language = "go"
            THEN <<Step("Setup Go", "actions/setup-go@v4", Absent,
                        <<"go-version", "1.21">>)>>
        ELSE IF language = "csharp"
            THEN <<Step("Setup .NET", "actions/setup-dotnet@v3", Absent,
                        <<"dotnet-version", "6.0">>)>>
        ELSE << >>

_get_dependency_install_steps(project_info) ==
    LET language == project_info.language
    IN  IF language \in {"javascript", "typescript"}
            THEN <<RunStep("Install dependencies", "npm ci")>>
        ELSE IF language = "python"
            THEN <<RunStep("Install dependencies", "pip install -r requirements.txt")>>
        ELSE IF language = "java"
            THEN <<RunStep("Install dependencies", "mvn dependency:resolve")>>
        ELSE IF language = "go"
            THEN <<RunStep("Install dependencies", "go mod download")>>
        ELSE IF language = "csharp"
            THEN <<RunStep("Install dependencies", "dotnet restore")>>
        ELSE << >>

_get_test_steps(project_info) ==
    LET language == project_info.language
    IN  IF language \in {"javascript", "typescript"}
            THEN <<RunStep("Run tests", "npm test")>>
        ELSE IF language = "python"
            THEN <<RunStep("Run tests", "python -m pytest")>>
        ELSE IF language = "java"
            THEN <<RunStep("Run tests", "mvn test")>>
        ELSE IF language = "go"
            THEN <<RunStep("Run tests", "go test ./...")>>
        ELSE IF language = "csharp"
            THEN <<RunStep("Run tests", "dotnet test")>>
        ELSE << >>

\* _get_build_steps ending in the C build for every language it does not name.
_get_build_steps_MakeElse(project_info) ==
    LET language == project_info.language
        framework == project_info.framework
    IN  IF language \in {"javascript", "typescript"}
            THEN IF framework \in {"react", "vue", "typescript"}
                 THEN <<RunStep("Build", "npm run build")>> ELSE << >>
        ELSE IF language = "java"
            THEN <<RunStep("Build", "mvn package")>>
        ELSE IF language = "go"
            THEN <<RunStep("Build", "go build -o app ./...")>>
        ELSE IF language = "csharp"
            THEN <<RunStep("Build", "dotnet build")>>
        ELSE <<RunStep("Build",
               "make || gcc -o app *.c || echo \"No standard build found\"")>>

_get_build_steps(project_info) ==
    LET language == project_info.language
        framework == project_info.framework
    IN  IF language \in {"javascript", "typescript"}
            THEN IF framework \in {"react", "vue", "typescript"}
                 THEN <<RunStep("Build", "npm run build")>> ELSE << >>
        ELSE IF language = "java"
            THEN <<RunStep("Build", "mvn package")>>
        ELSE IF language = "go"
            THEN <<RunStep("Build", "go build -o app ./...")>>
        ELSE IF language = "csharp"
            THEN <<RunStep("Build", "dotnet build")>>
        ELSE IF language = "c"
            THEN <<RunStep("Build",
                   "make || gcc -o app *.c || echo \"No standard build found\"")>>
        ELSE << >>

_get_docker_build_steps(project_info) ==
    <<RunStep("Build Docker image", "docker build -t myapp:${{ github.sha }} ."),
      RunStep("Test Docker image",
              "docker run --rm myapp:${{ github.sha }} --version || echo \"No version flag\"")>>

\* dict.get(key, default) on a dict whose missing keys hold Absent.
Get(d, key, default) == IF d[key] = Absent THEN default ELSE d[key]

\* config.get('deployment', {}): the empty dict when the key is missing.
Deployment(cfg) ==
    IF cfg.deployment.present THEN cfg.deployment
    ELSE [present |-> FALSE, enabled |-> Absent, strategy |-> Absent,
          imageName |-> Absent]

\* An f-string: its literal parts and the formatted values, in order.
FString(parts) == parts

\* _get_docker_deploy_steps naming the default image whatever is configured.
_get_docker_deploy_steps_FixedImage(project_info, cfg) ==
    <<RunStep("Build Docker image",
              FString(<<"docker build -t ", "myapp", ":${{ github.sha }} .">>)),
      RunStep("Push to registry",
              FString(<<"docker push ", "myapp", ":${{ github.sha }}">>))>>

_get_docker_deploy_steps(project_info, cfg) ==
    LET image_name == Get(Deployment(cfg), "imageName", "myapp")
    IN  <<RunStep("Build Docker image",
                  FString(<<"docker build -t ", image_name, ":${{ github.sha }} .">>)),
          RunStep("Push to registry",
                  FString(<<"docker push ", image_name, ":${{ github.sha }}">>))>>

_get_kubernetes_deploy_steps(project_info, cfg) ==
    <<RunStep("Deploy to Kubernetes", "kubectl apply -f k8s/")>>

\* _generate_build_steps running the build before the tests.
_generate_build_steps_BuildBeforeTest(project_info, cfg) ==
    <<Step("Checkout", "actions/checkout@v4", Absent, Absent)>>
    \o _get_language_setup_steps(project_info)
    \o _get_dependency_install_steps(project_info)
    \o _get_build_steps(project_info)
    \o (IF project_info.testing THEN _get_test_steps(project_info) ELSE << >>)
    \o (IF project_info.structure.dockerized
        THEN _get_docker_build_steps(project_info) ELSE << >>)

_generate_build_steps(project_info, cfg) ==
    <<Step("Checkout", "actions/checkout@v4", Absent, Absent)>>
    \o _get_language_setup_steps(project_info)
    \o _get_dependency_install_steps(project_info)
    \o (IF project_info.testing THEN _get_test_steps(project_info) ELSE << >>)
    \o _get_build_steps(project_info)
    \o (IF project_info.structure.dockerized
        THEN _get_docker_build_steps(project_info) ELSE << >>)

\* _generate_deploy_steps taking every strategy but docker for kubernetes.
_generate_deploy_steps_KubernetesElse(project_info, cfg) ==
    IF Deployment(cfg).strategy = "docker"
        THEN _get_docker_deploy_steps(project_info, cfg)
    ELSE _get_kubernetes_deploy_steps(project_info, cfg)

_generate_deploy_steps(project_info, cfg) ==
    IF Deployment(cfg).strategy = "docker"
        THEN _get_docker_deploy_steps(project_info, cfg)
    ELSE IF Deployment(cfg).strategy = "kubernetes"
        THEN _get_kubernetes_deploy_steps(project_info, cfg)
    ELSE << >>

-----------------------------------------------------------------------------
(* Platform templates.  A dict whose keys depend on the input is a         *)
(* function on its keys.                                                   *)

\* Python truthiness of config['deployment']['enabled'].
DeployEnabled(cfg) == Deployment(cfg).enabled = "True"

\* yaml.dump of a dict: block-style YAML text, which parses back to the dict.
yaml_dump(data) == [syntax |-> "yaml", data |-> data]

_generate_github_actions(project_info, cfg) ==
    LET build == ("runs-on" :> "ubuntu-latest")
                 @@ ("steps" :> _generate_build_steps(project_info, cfg))
        deploy == ("runs-on" :> "ubuntu-latest")
                  @@ ("needs" :> "build")
                  @@ ("if" :> "github.ref == 'refs/heads/main' && github.event_name == 'push'")
                  @@ ("steps" :> _generate_deploy_steps(project_info, cfg))
        jobs == IF DeployEnabled(cfg)
                THEN ("build" :> build) @@ ("deploy" :> deploy)
                ELSE ("build" :> build)
        workflow == [name |-> FString(<<project_info.framework, " CI/CD">>),
                     on |-> [push |-> [branches |-> <<"main", "master", "develop">>],
                             pull_request |-> [branches |-> <<"main", "master">>]],
                     jobs |-> jobs]
    IN  [content |-> yaml_dump(workflow), format |-> "yaml",
         filename |-> ".github/workflows/ci.yml"]

_get_gitlab_variables(project_info, cfg) ==
    [NODE_VERSION |-> "18", PYTHON_VERSION |-> "3.9", JAVA_VERSION |-> "17"]

_get_gitlab_script(stage, project_info) ==
    LET language == project_info.language
    IN  IF stage = "build" /\ language = "javascript" THEN <<"npm ci", "npm run build">>
        ELSE IF stage = "build" /\ language = "python"
            THEN <<"pip install -r requirements.txt">>
        ELSE IF stage = "build" /\ language = "java" THEN <<"mvn clean package">>
        ELSE IF stage = "build" /\ language = "go"
            THEN <<"go mod download", "go build ./...">>
        ELSE IF stage = "build" /\ language = "csharp"
            THEN <<"dotnet restore", "dotnet build">>
        ELSE IF stage = "test" /\ language = "javascript" THEN <<"npm test">>
        ELSE IF stage = "test" /\ language = "python" THEN <<"python -m pytest">>
        ELSE IF stage = "test" /\ language = "java" THEN <<"mvn test">>
        ELSE IF stage = "test" /\ language = "go" THEN <<"go test ./...">>
        ELSE IF stage = "test" /\ language = "csharp" THEN <<"dotnet test">>
        ELSE IF stage = "deploy" THEN <<"echo \"Deploy script would go here\"">>
        ELSE <<"echo \"Unknown stage\"">>

_get_gitlab_image(project_info) ==
    LET language == project_info.language
    IN  CASE language = "javascript" -> "node:18"
          [] language = "python" -> "python:3.9"
          [] language = "java" -> "openjdk:17"
          [] language = "go" -> "golang:1.21"
          [] language = "csharp" -> "mcr.microsoft.com/dotnet/sdk:6.0"
          [] OTHER -> "ubuntu:latest"

_generate_gitlab_job(stage, project_info, cfg) ==
    [stage |-> stage, script |-> _get_gitlab_script(stage, project_info),
     image |-> _get_gitlab_image(project_info)]

_generate_gitlab_ci(project_info, cfg) ==
    LET head == ("stages" :> <<"build", "test", "deploy">>)
                @@ ("variables" :> _get_gitlab_variables(project_info, cfg))
                @@ ("build" :> _generate_gitlab_job("build", project_info, cfg))
                @@ ("test" :> _generate_gitlab_job("test", project_info, cfg))
        pipeline == IF DeployEnabled(cfg)
                    THEN head @@ ("deploy" :> _generate_gitlab_job("deploy", project_info, cfg))
                    ELSE head
    IN  [content |-> yaml_dump(pipeline), format |-> "yaml", filename |-> ".gitlab-ci.yml"]

_generate_jenkins_stages(project_info, cfg) ==
    <<[stage |-> "Build", steps |-> <<[sh |-> "echo \"Build step\""]>>],
      [stage |-> "Test", steps |-> <<[sh |-> "echo \"Test step\""]>>]>>

_get_jenkins_post_actions(project_info, cfg) ==
    [always |-> <<[publishTestResults |-> [testResultsPattern |-> "**/test-results.xml"]]>>]

_generate_jenkins(project_info, cfg) ==
    LET pipeline == [pipeline |-> [agent |-> "any",
                                   stages |-> _generate_jenkins_stages(project_info, cfg),
                                   post |-> _get_jenkins_post_actions(project_info, cfg)]]
    IN  [content |-> yaml_dump(pipeline), format |-> "yaml", filename |-> "Jenkinsfile"]

\* self.templates: the platforms that have a template.
templates == {"github-actions", "gitlab-ci", "jenkins"}

RunTemplate(platform, project_info, cfg) ==
    CASE platform = "github-actions" -> _generate_github_actions(project_info, cfg)
      [] platform = "gitlab-ci" -> _generate_gitlab_ci(project_info, cfg)
      [] platform = "jenkins" -> _generate_jenkins(project_info, cfg)

-----------------------------------------------------------------------------
(* Pipeline writer and PipelineGenerator.generate                          *)

\* os.path.join(a, b) and os.path.dirname of a joined path, as path components.
PathJoin(a, b) == <<a, b>>

DirName(path) ==
    IF path[2] = ".github/workflows/ci.yml" THEN <<path[1], ".github/workflows">>
    ELSE <<path[1]>>

\* _save_pipeline falling back to the project's path whenever no directory is given.
_save_pipeline_ProfilePathElse(pipeline, project_info, cfg, fs0) ==
    LET given == Get(cfg, "output_dir", project_info.path)
        output_dir == IF given \in {PyNone, ""} THEN project_info.path ELSE given
        output_path == PathJoin(output_dir, pipeline.filename)
    IN  [output_path |-> output_path,
         fs |-> [dirs |-> fs0.dirs \cup {DirName(output_path)},
                 written |-> Append(fs0.written, <<output_path, pipeline.content>>)]]

\* Returns the path written and the filesystem after makedirs and the write.
_save_pipeline(pipeline, project_info, cfg, fs0) ==
    LET given == Get(cfg, "output_dir", project_info.path)
        output_dir == IF given \in {PyNone, ""} THEN "." ELSE given
        output_path == PathJoin(output_dir, pipeline.filename)
    IN  [output_path |-> output_path,
         fs |-> [dirs |-> fs0.dirs \cup {DirName(output_path)},
                 written |-> Append(fs0.written, <<output_path, pipeline.content>>)]]

\* generate falling back to the default template for an unknown platform.
generate_FallbackTemplate(project_info, cfg, fs0) ==
    LET asked == Get(cfg, "platform", "github-actions")
        platform == IF asked \in templates THEN asked ELSE "github-actions"
        pipeline == RunTemplate(platform, project_info, cfg)
        saved == _save_pipeline(pipeline, project_info, cfg, fs0)
    IN  [status |-> "generated", error |-> "",
         document |-> [content |-> pipeline.content, format |-> pipeline.format,
                       filename |-> pipeline.filename,
                       output_file |-> saved.output_path,
                       platform |-> platform],
         fs |-> saved.fs, ran |-> <<platform>>]

generate(project_info, cfg, fs0) ==
    LET platform == Get(cfg, "platform", "github-actions")
    IN  IF platform \notin templates
        THEN [status |-> "failed", error |-> "ValueError", document |-> NoDocument,
              fs |-> fs0, ran |-> << >>]
        ELSE LET pipeline == RunTemplate(platform, project_info, cfg)
                 saved == _save_pipeline(pipeline, project_info, cfg, fs0)
             IN  [status |-> "generated", error |-> "",
                  document |-> [content |-> pipeline.content, format |-> pipeline.format,
                                filename |-> pipeline.filename,
                                output_file |-> saved.output_path,
                                platform |-> platform],
                  fs |-> saved.fs, ran |-> <<platform>>]

-----------------------------------------------------------------------------
(* The inputs of generate(): profiles and configurations.                  *)

Languages ==
    {"javascript", "typescript", "python", "java", "go", "c", "csharp", "php", "unknown"}

Frameworks == {"react", "typescript", "nodejs", "unknown", PyNone}

Profiles ==
    {[path |-> ProjectPath, language |-> l, framework |-> f, type |-> "backend",
      structure |-> [monorepo |-> FALSE, microservices |-> FALSE, layered |-> FALSE,
                     modular |-> FALSE, dockerized |-> d],
      complexity |-> "low", dependencies |-> << >>, testing |-> tst,
      build_tools |-> << >>, deployment |-> << >>]
     : l \in Languages, f \in Frameworks, d \in BOOLEAN, tst \in BOOLEAN}

Deployments ==
    {[present |-> FALSE, enabled |-> Absent, strategy |-> Absent, imageName |-> Absent]}
    \cup [present : {TRUE}, enabled : {Absent, "True", "False"},
          strategy : {Absent, "docker", "kubernetes", "helm"},
          imageName : {Absent, "svc"}]

Configs ==
    [platform : {Absent, "github-actions", "gitlab-ci", "jenkins", "circleci"},
     output_dir : {Absent, PyNone, "", "out"},
     deployment : Deployments]

InitGenerate ==
    /\ tree = {}
    /\ pc = "start"
    /\ profile = NoProfile
    /\ error = ""
    /\ config = NoConfig
    /\ document = NoDocument
    /\ fs = EmptyFs
    /\ ran = << >>
    /\ calls = 0
    /\ recommendations = << >>

Generate ==
    /\ pc = "start"
    /\ \E project_info \in Profiles, cfg \in Configs :
          LET r == generate(project_info, cfg, fs)
          IN  /\ profile' = project_info
              /\ config' = cfg
              /\ pc' = r.status
              /\ error' = r.error
              /\ document' = r.document
              /\ fs' = r.fs
              /\ ran' = ran \o r.ran
    /\ UNCHANGED <<tree, calls, recommendations>>

NextGenerate == Generate

SpecGenerate == InitGenerate /\ [][NextGenerate]_vars

-----------------------------------------------------------------------------
(* AmazingAutomata.get_refactoring_recommendations.  A recommendation is   *)
(* its type, its priority and a tag standing for the fixed message text.   *)

DependencyLimit == 100

Recommendation(type, message, priority) ==
    [type |-> type, message |-> message, priority |-> priority]

get_refactoring_recommendations_AtLeastLimit(project_info) ==
    (IF project_info.complexity = "high"
     THEN <<Recommendation("complexity", "split into microservices", "high")>>
     ELSE << >>)
    \o (IF Len(project_info.dependencies) >= DependencyLimit
        THEN <<Recommendation("dependencies", "optimise dependencies", "medium")>>
        ELSE << >>)
    \o (IF ~project_info.testing
        THEN <<Recommendation("testing", "add tests", "high")>>
        ELSE << >>)

get_refactoring_recommendations(project_info) ==
    (IF project_info.complexity = "high"
     THEN <<Recommendation("complexity", "split into microservices", "high")>>
     ELSE << >>)
    \o (IF Len(project_info.dependencies) > DependencyLimit
        THEN <<Recommendation("dependencies", "optimise dependencies", "medium")>>
        ELSE << >>)
    \o (IF ~project_info.testing
        THEN <<Recommendation("testing", "add tests", "high")>>
        ELSE << >>)

DependencyCounts == {0, DependencyLimit - 1, DependencyLimit, DependencyLimit + 1}

DependencyList(n) == [i \in 1..n |-> "dep"]

RecommendProfiles ==
    {[path |-> ProjectPath, language |-> l, framework |-> PyNone, type |-> "backend",
      structure |-> [monorepo |-> FALSE, microservices |-> FALSE, layered |-> FALSE,
                     modular |-> FALSE, dockerized |-> FALSE],
      complexity |-> c, dependencies |-> DependencyList(n), testing |-> tst,
      build_tools |-> << >>, deployment |-> << >>]
     : l \in Languages, c \in {"low", "medium", "high"}, n \in DependencyCounts,
       tst \in BOOLEAN}

InitRecommend ==
    /\ tree = {}
    /\ pc = "start"
    /\ profile = NoProfile
    /\ error = ""
    /\ config = NoConfig
    /\ document = NoDocument
    /\ fs = EmptyFs
    /\ ran = << >>
    /\ calls = 0
    /\ recommendations = << >>

Recommend ==
    /\ pc = "start"
    /\ \E project_info \in RecommendProfiles :
          /\ profile' = project_info
          /\ recommendations' = get_refactoring_recommendations(project_info)
    /\ pc' = "recommended"
    /\ UNCHANGED <<tree, error, config, document, fs, ran, calls>>

NextRecommend == Recommend

SpecRecommend == InitRecommend /\ [][NextRecommend]_vars

-----------------------------------------------------------------------------
(* Properties of detection.                                                *)

Triple(info) == <<info.language, info.framework, info.type>>

Has(t, names) == \E a \in t : a[1] \in names

\* C1: the complexity of a returned profile is the thresholded score of that
\* profile's own dependencies, structure flags and testing field.
C1_ComplexityFromOwnFields ==
    pc = "returned" =>
        LET n == Len(profile.dependencies)
            score == (IF n > 50 THEN 2 ELSE IF n > 20 THEN 1 ELSE 0)
                     + (IF profile.structure.monorepo THEN 2 ELSE 0)
                     + (IF profile.structure.microservices THEN 2 ELSE 0)
                     + (IF profile.testing = FALSE THEN 1 ELSE 0)
        IN  profile.complexity
              = (IF score >= 5 THEN "high" ELSE IF score >= 3 THEN "medium" ELSE "low")

\* No package.json key and no entry of the tree is evidence of a language.
NoEvidence(t) ==
    /\ ~Has(t, PkgFields \cup {"package.json"})
    /\ ~Has(t, {"requirements.txt", "pyproject.toml", "pom.xml", "build.gradle",
                "go.mod", "Makefile", "CMakeLists.txt", "configure", "main.c",
                "util.h", "App.csproj", "composer.json"})

\* C2: when no classification rule matches, language, framework and type are
\* all 'unknown'; the language of a returned profile is never None or missing.
C2_UnknownClassification ==
    pc = "returned" =>
        /\ profile.language \notin {PyNone, Absent}
        /\ NoEvidence(tree) => Triple(profile) = <<"unknown", "unknown", "unknown">>

\* The package.json rules in their order: the names that trigger a rule and the
\* classification it gives.
PackageOrder ==
    << <<{"typescript", "ts-node"}, <<"typescript", "typescript", "backend">> >>,
       <<{"react-native"}, <<"javascript", "react-native", "mobile">> >>,
       <<{"react", "react-dom"}, <<"javascript", "react", "frontend">> >>,
       <<{"vue", "@vue/cli-service"}, <<"javascript", "vue", "frontend">> >>,
       <<{"@angular/core", "@angular/cli"}, <<"typescript", "angular", "frontend">> >>,
       <<{"express", "koa", "fastify", "nestjs"}, <<"javascript", "nodejs", "backend">> >>,
       <<{}, <<"javascript", "express", "backend">> >> >>

AllDeps(t) ==
    Values(t, "package.json/dependencies") \cup Values(t, "package.json/devDependencies")

RuleApplies(t, i) ==
    IF i < 7 THEN PackageOrder[i][1] \cap AllDeps(t) # {}
    ELSE \/ <<"package.json/name", "express">> \in t
         \/ <<"package.json/keywords", "express">> \in t

\* The first package.json rule that applies to the tree, 0 when none does.
FirstPackageRule(t) ==
    IF \E i \in 1..7 : RuleApplies(t, i)
    THEN CHOOSE i \in 1..7 : RuleApplies(t, i) /\ \A j \in 1..(i - 1) : ~RuleApplies(t, j)
    ELSE 0

\* C3: with a non-empty package.json the classification is that of the first
\* rule, in the fixed order, that the combined dependencies match; TypeScript
\* markers win over react.
C3_PackageJsonPriority ==
    (pc = "returned" /\ FirstPackageRule(tree) # 0) =>
        Triple(profile) = PackageOrder[FirstPackageRule(tree)][2]

C3_Witness ==
    /\ pc = "returned"
    /\ "typescript" \in AllDeps(tree)
    /\ "react" \in AllDeps(tree)
    /\ Triple(profile) = <<"typescript", "typescript", "backend">>

\* The language markers in their order.
LanguageOrder ==
    << <<{"requirements.txt", "pyproject.toml"}, "python">>,
       <<{"pom.xml", "build.gradle"}, "java">>,
       <<{"go.mod"}, "go">>,
       <<{"Makefile", "CMakeLists.txt", "configure", "main.c", "util.h"}, "c">>,
       <<{"App.csproj"}, "csharp">>,
       <<{"composer.json"}, "php">> >>

FirstLanguage(t) ==
    IF \E i \in 1..6 : Has(t, LanguageOrder[i][1])
    THEN LanguageOrder[CHOOSE i \in 1..6 :
                          /\ Has(t, LanguageOrder[i][1])
                          /\ \A j \in 1..(i - 1) : ~Has(t, LanguageOrder[j][1])][2]
    ELSE "unknown"

\* C4: the language markers decide exactly when no package.json rule matched,
\* and then the first of Python, Java, Go, C, C#, PHP whose marker is in the tree
\* is the language; with no marker the language and type are unknown.
C4_LanguagePriority ==
    pc = "returned" =>
        IF FirstPackageRule(tree) # 0
        THEN profile.language \in {"javascript", "typescript"}
        ELSE /\ profile.language = FirstLanguage(tree)
             /\ profile.type = (IF FirstLanguage(tree) = "unknown"
                                THEN "unknown" ELSE "backend")

C4_Witness ==
    /\ pc = "returned"
    /\ Has(tree, {"Makefile"})
    /\ Has(tree, {"composer.json"})
    /\ profile.language = "c"

\* C5: detect never raises, whatever the manifests hold.
C5_DetectNeverRaises == pc # "raised"

\* C6: a manifest that exists but cannot be parsed gives the classification
\* the same tree gives with that manifest removed.
C6_MalformedAsAbsent ==
    pc = "returned" =>
        \A a \in tree :
            a[2] \in {"unparsable", "unreadable"} =>
                LET removed == detect(tree \ {a})
                IN  /\ removed.status = "returned"
                    /\ Triple(removed.info) = Triple(profile)

-----------------------------------------------------------------------------
(* Properties of synthesis.                                                *)

Requested(cfg) == IF cfg.platform = Absent THEN "github-actions" ELSE cfg.platform

Enabled(cfg) == cfg.deployment.present /\ cfg.deployment.enabled = "True"

\* C7: an unsupported platform raises the unsupported-platform error, and then
\* no template has run, no directory was made and no file was written.
C7_UnsupportedPlatformNoWrite ==
    (pc \in {"generated", "failed"}
     /\ Requested(config) \notin {"github-actions", "gitlab-ci", "jenkins"}) =>
        /\ pc = "failed"
        /\ error = "ValueError"
        /\ ran = << >>
        /\ fs.dirs = {}
        /\ fs.written = << >>

C7_Witness ==
    /\ pc = "failed"
    /\ config.platform = "circleci"
    /\ fs = EmptyFs

\* The stages or jobs of a document that carry the given name.
StageCount(doc, job, stage) ==
    IF doc.platform = "jenkins"
    THEN LET stages == doc.content.data.pipeline.stages
         IN  Cardinality({i \in 1..Len(stages) : stages[i].stage = stage})
    ELSE IF doc.platform = "gitlab-ci"
    THEN Cardinality({k \in DOMAIN doc.content.data : k = job})
    ELSE Cardinality({k \in DOMAIN doc.content.data.jobs : k = job})

\* C8: on every supported platform the document has exactly one build stage
\* and has a deploy stage, exactly one, iff deployment.enabled is true.
C8_OneBuildDeployIffEnabled ==
    pc = "generated" =>
        /\ StageCount(document, "build", "Build") = 1
        /\ StageCount(document, "deploy", "Deploy") = (IF Enabled(config) THEN 1 ELSE 0)

DeployJob(doc) == doc.content.data.jobs["deploy"]

ImageName(cfg) ==
    IF cfg.deployment.imageName = Absent THEN "myapp" ELSE cfg.deployment.imageName

-----------------------------------------------------------------------------
(* Properties of the step content.                                         *)

Range(seq) == {seq[i] : i \in 1..Len(seq)}

TestCommands ==
    {"npm test", "python -m pytest", "mvn test", "go test ./...", "dotnet test"}

\* The commands the build and test stages of a document run (the deploy
\* stage runs docker, kubectl or echo commands only).
StageCommands(doc) ==
    IF doc.platform = "github-actions"
    THEN {st.run : st \in Range(doc.content.data.jobs["build"]["steps"])} \ {Absent}
    ELSE IF doc.platform = "gitlab-ci"
    THEN Range(doc.content.data["build"].script) \cup Range(doc.content.data["test"].script)
    ELSE UNION {{c.sh : c \in Range(stg.steps)} : stg \in Range(doc.content.data.pipeline.stages)}

\* C11: a document generated from a profile with testing = false holds no test
\* command, on every supported platform and for every language.
C11_NoTestWithoutTesting ==
    (pc = "generated" /\ profile.testing = FALSE) =>
        StageCommands(document) \cap TestCommands = {}

\* The run commands the step catalog gives the hosted-workflow build job for
\* install, test and build.
CatalogCommands(info) ==
    {st.run : st \in Range(_get_dependency_install_steps(info)
                           \o (IF info.testing THEN _get_test_steps(info) ELSE << >>)
                           \o _get_build_steps(info))}

\* C12: the commands the gitlab-ci and jenkins templates run for install,
\* build and test are the run commands of the step catalog for the same profile
\* (compared as sets: the order of the stages is left to the platform).
C12_SharedStepContent ==
    (pc = "generated" /\ document.platform \in {"gitlab-ci", "jenkins"}) =>
        StageCommands(document) = CatalogCommands(profile)

\* C13: for a profile of unknown language the setup, install, test and build
\* lookups are empty, and generate on a supported platform returns a document:
\* the hosted-workflow build job is then Checkout plus the containerize steps.
C13_UnknownLanguageHandled ==
    (pc \in {"generated", "failed"} /\ profile.language = "unknown") =>
        /\ _get_language_setup_steps(profile) = << >>
        /\ _get_dependency_install_steps(profile) = << >>
        /\ _get_test_steps(profile) = << >>
        /\ _get_build_steps(profile) = << >>
        /\ Requested(config) \in {"github-actions", "gitlab-ci", "jenkins"} =>
             /\ pc = "generated"
             /\ error = ""
             /\ Len(fs.written) = 1
        /\ (pc = "generated" /\ document.platform = "github-actions") =>
             LET steps == document.content.data.jobs["build"]["steps"]
             IN  /\ steps[1].name = "Checkout"
                 /\ Len(steps) = (IF profile.structure.dockerized THEN 3 ELSE 1)

C13_Witness ==
    /\ pc = "generated"
    /\ profile.language = "unknown"
    /\ profile.framework = PyNone
    /\ profile.testing
    /\ document.platform = "github-actions"
    /\ Len(document.content.data.jobs["build"]["steps"]) = 1

-----------------------------------------------------------------------------
(* Properties of the recommendations.                                      *)

Occurrences(seq, type) == Cardinality({i \in 1..Len(seq) : seq[i].type = type})

RuleRank(type) ==
    IF type = "complexity" THEN 1 ELSE IF type = "dependencies" THEN 2 ELSE 3

RuleHolds(recs, type, priority, cond) ==
    /\ Occurrences(recs, type) = (IF cond THEN 1 ELSE 0)
    /\ \A i \in 1..Len(recs) : recs[i].type = type => recs[i].priority = priority

\* C14: the recommendations hold a 'complexity' entry of priority high iff the
\* complexity is 'high', a 'dependencies' entry of priority medium iff there
\* are more than 100 dependencies, a 'testing' entry of priority high iff
\* testing is false; nothing else, at most one of each, in that order.
C14_RecommendationRules ==
    pc = "recommended" =>
        /\ RuleHolds(recommendations, "complexity", "high", profile.complexity = "high")
        /\ RuleHolds(recommendations, "dependencies", "medium",
                     Len(profile.dependencies) > 100)
        /\ RuleHolds(recommendations, "testing", "high", profile.testing = FALSE)
        /\ \A i \in 1..Len(recommendations) :
              recommendations[i].type \in {"complexity", "dependencies", "testing"}
        /\ \A i, j \in 1..Len(recommendations) :
              i < j => RuleRank(recommendations[i].type) < RuleRank(recommendations[j].type)

C14_Witness ==
    /\ pc = "recommended"
    /\ profile.complexity = "high"
    /\ Len(profile.dependencies) = 101
    /\ profile.testing = FALSE
    /\ Len(recommendations) = 3

-----------------------------------------------------------------------------
(* Properties of the document format.                                      *)

\* C15: the format is determined by the platform: github-actions and
\* gitlab-ci documents are YAML and say so in their format field; the jenkins
\* document is a declarative script, not YAML, and its format field is not
\* 'yaml'.
C15_FormatByPlatform ==
    pc = "generated" =>
        /\ document.platform \in {"github-actions", "gitlab-ci"} =>
              (document.content.syntax = "yaml" /\ document.format = "yaml")
        /\ document.platform = "jenkins" =>
              (document.content.syntax # "yaml" /\ document.format # "yaml")

-----------------------------------------------------------------------------
(* Properties of repeated detection.                                       *)

C18_ComplexityFromFlagsOnly ==
    pc = "returned" =>
        LET mono == profile.structure.monorepo
            micro == profile.structure.microservices
        IN  /\ profile.dependencies = << >>
            /\ profile.complexity = "low" <=> (~mono /\ ~micro)
            /\ profile.complexity = "medium" <=> (mono # micro)
            /\ profile.complexity = "high" <=> (mono /\ micro)

C18_Witness ==
    /\ pc = "returned"
    /\ profile.testing = TRUE
    /\ profile.structure.monorepo # profile.structure.microservices
    /\ profile.complexity = "medium"

-----------------------------------------------------------------------------
(* Properties of the build job of the workflow.                            *)

SetupNames ==
    {"Setup Node.js", "Setup Python", "Setup C environment", "Setup Java", "Setup Go",
     "Setup .NET"}

ContainerizeNames == <<"Build Docker image", "Test Docker image">>

\* The stage a step of the build job belongs to, by its name.
StageOf(name) ==
    IF name = "Checkout" THEN 0
    ELSE IF name \in SetupNames THEN 1
    ELSE IF name = "Install dependencies" THEN 2
    ELSE IF name = "Run tests" THEN 3
    ELSE IF name = "Build" THEN 4
    ELSE IF name \in Range(ContainerizeNames) THEN 5
    ELSE 6

BuildJobSteps(doc) == doc.content.data.jobs["build"]["steps"]

\* C17: the steps of the workflow's build job are in the order Checkout,
\* setup, install, test, build, containerize: the first is Checkout, no step
\* comes before a step of an earlier stage, a test step appears only when
\* testing is set, and the two containerize steps end the job iff the profile
\* is dockerized, whatever its language.
C17_BuildJobStepOrder ==
    (pc = "generated" /\ document.platform = "github-actions") =>
        LET steps == BuildJobSteps(document)
            n == Len(steps)
            docker == {i \in 1..n : StageOf(steps[i].name) = 5}
        IN  /\ steps[1].name = "Checkout"
            /\ \A i \in 2..n : StageOf(steps[i].name) \in 1..5
            /\ \A i, j \in 1..n : i < j => StageOf(steps[i].name) <= StageOf(steps[j].name)
            /\ (\E i \in 1..n : StageOf(steps[i].name) = 3) => profile.testing
            /\ IF profile.structure.dockerized
               THEN /\ docker = {n - 1, n}
                    /\ <<steps[n - 1].name, steps[n].name>> = ContainerizeNames
               ELSE docker = {}

C17_Witness ==
    /\ pc = "generated"
    /\ document.platform = "github-actions"
    /\ profile.language = "go"
    /\ profile.testing
    /\ profile.structure.dockerized
    /\ Len(BuildJobSteps(document)) = 7

-----------------------------------------------------------------------------
(* Properties of the write.                                                *)

FileNameOf(platform) ==
    CASE platform = "github-actions" -> ".github/workflows/ci.yml"
      [] platform = "gitlab-ci" -> ".gitlab-ci.yml"
      [] platform = "jenkins" -> "Jenkinsfile"

\* The directory the claim names for a configuration and a profile.
BaseOf(cfg, info) ==
    IF cfg.output_dir = Absent THEN info.path
    ELSE IF cfg.output_dir \in {PyNone, ""} THEN "."
    ELSE cfg.output_dir

\* C19: a successful generate makes exactly one write, of the document's
\* content, at <base>/<filename>: the filename is the platform's, the base is
\* output_dir when given and non-empty, the profile's path when the key is
\* absent, and '.' when the key holds None or the empty string; output_file
\* is the path written.
C19_OneWriteAtBase ==
    pc = "generated" =>
        LET path == <<BaseOf(config, profile), FileNameOf(document.platform)>>
        IN  /\ fs.written = << <<path, document.content>> >>
            /\ document.output_file = path

C19_Witness ==
    /\ pc = "generated"
    /\ config.output_dir = PyNone
    /\ Len(fs.written) = 1
    /\ fs.written[1][1] = <<".", "Jenkinsfile">>
    /\ profile.path # "."

====
